---- MODULE Spec2Model ----
(***************************************************************************)
(* Transit event detection of vedic_transits.py: get_planet_data,          *)
(* get_sign and find_events (the scan loop, the 20-step bisection and the  *)
(* resume from the refined instant plus 0.0001 days).                      *)
(*                                                                         *)
(* Time is a Julian day offset counted in microdays (1e-6 day), so that    *)
(* the program's constants are whole numbers: 0.25 d = 250000, 0.04 d =    *)
(* 40000, 0.0001 d = 100.  The float midpoint (low + high) / 2 is rounded  *)
(* down to that grid.  Longitudes are whole degrees, speeds are tenths of  *)
(* a degree per day.                                                       *)
(*                                                                         *)
(* The ephemeris (swe.calc_ut) is external: it is the variable oracle, a   *)
(* sequence of segments, each giving the longitude (a start value and a    *)
(* slope) and the speed from its start instant on.                         *)
(***************************************************************************)
EXTENDS Integers, Sequences, FiniteSets, TLC

VARIABLES
    planet_id, start_jd, end_jd,   \* arguments of find_events
    oracle,                        \* what swe.calc_ut answers
    pc,                            \* position in find_events / classifier
    events,                        \* the list being built
    step_days, scan_jd,
    prev_jd, prev_sign, prev_retro,
    curr_lon, curr_speed, curr_retro, curr_sign,
    sign_changed, motion_changed,
    low, high, found_jd,
    iter,                          \* bisection iterations done (the for loop)
    calls,                         \* number of get_planet_data calls so far
    in_lon, in_speed,              \* classifier inputs
    out_sign, out_retro            \* classifier outputs

vars == << planet_id, start_jd, end_jd, oracle, pc, events, step_days, scan_jd,
           prev_jd, prev_sign, prev_retro, curr_lon, curr_speed, curr_retro,
           curr_sign, sign_changed, motion_changed, low, high, found_jd, iter,
           calls, in_lon, in_speed, out_sign, out_retro >>

----------------------------------------------------------------------------
(* Program constants *)

StepDefault == 250000     \* step_days = 0.25
StepMoon    == 40000      \* step_days = 0.04
Epsilon     == 100        \* scan_jd += 0.0001
\* Variant: half the iterations.
IterationsHalved == 20 \div 2

Iterations  == 20         \* for _ in range(20)

(* Bounds of the model *)

MaxChanges  == 2          \* changes of a stepwise oracle
MaxFlips    == 6          \* changes of a cyclic oracle
LonLimit    == 400        \* classifier inputs range over -LonLimit..2*LonLimit

Planets == {"SUN", "MOON", "KETU"}

----------------------------------------------------------------------------
(* The oracle *)

\* The segment in force at jd: the last one that starts at or before jd.
Segment(orc, jd) ==
    LET I == {i \in 1..Len(orc) : orc[i].t <= jd}
        k == CHOOSE i \in I : \A j \in I : j <= i
    IN  orc[k]

\* swe.calc_ut(jd, body, flags)[0]: longitude, which the ephemeris gives in
\* [0, 360), and speed in longitude.
calc_ut(orc, jd) ==
    LET s == Segment(orc, jd)
    IN  [lon |-> (s.lon + (s.num * (jd - s.t)) \div s.den) % 360,
         speed |-> s.speed]

\* get_planet_data after its call of swe.calc_ut: res is that call's answer.
Unpack(res, pid) ==
    IF pid = "KETU"
    THEN [lon |-> (res.lon + 180) % 360, speed |-> res.speed,
          retro |-> res.speed < 0]
    ELSE [lon |-> res.lon, speed |-> res.speed, retro |-> res.speed < 0]

get_planet_data(orc, jd, pid) == Unpack(calc_ut(orc, jd), pid)

\* int(x / 30): Python's int() truncates toward zero.
TruncDiv(x, d) == IF x >= 0 THEN x \div d ELSE -((-x) \div d)

\* Variant: the sign index counted from 0.
get_sign_from_zero(lon) == TruncDiv(lon, 30)

get_sign(lon) == TruncDiv(lon, 30) + 1

----------------------------------------------------------------------------
(* Pieces of find_events *)

\* step_days = 0.25; if planet_id == swe.MOON: step_days = 0.04
StepFor(pid) == IF pid = "MOON" THEN StepMoon ELSE StepDefault

\* Variant: the loop also runs when the cursor is on the window end.
LoopCondInclusive(scan, end) == scan <= end

\* while scan_jd < end_jd
LoopCond(scan, end) == scan < end

\* Variant: the step is not clamped to the window end.
AdvanceNoClamp(scan, step, end) == scan + step

\* Variant: the step is computed but not stored unless it is clamped.
AdvanceStuck(scan, step, end) == IF scan + step > end THEN end ELSE scan

\* scan_jd += step_days; if scan_jd > end_jd: scan_jd = end_jd
Advance(scan, step, end) == IF scan + step > end THEN end ELSE scan + step

\* Variant: only a sign change opens a bracket.
DetectSignOnly(sc, mc) == sc

\* if sign_changed or motion_changed
Detect(sc, mc) == sc \/ mc

\* mid = (low + high) / 2
Mid(lo, hi) == (lo + hi) \div 2

\* Variant: a midpoint matches when it matches prev on any changed axis.
MatchPrevAny(m_sign, m_retro, p_sign, p_retro, sc, mc) ==
    \/ sc /\ m_sign = p_sign
    \/ mc /\ m_retro = p_retro

\* match_prev = (m_sign == prev_sign) if sign_changed else True
\* if motion_changed: match_prev = match_prev and (m_retro == prev_retro)
MatchPrev(m_sign, m_retro, p_sign, p_retro, sc, mc) ==
    LET m0 == IF sc THEN m_sign = p_sign ELSE TRUE
    IN  IF mc THEN m0 /\ (m_retro = p_retro) ELSE m0

\* Variant: the two branches exchanged.
NarrowSwapped(lo, hi, fnd, mid, match) ==
    IF match THEN [low |-> lo, high |-> mid, found |-> mid]
             ELSE [low |-> mid, high |-> hi, found |-> fnd]

\* if match_prev: low = mid  else: high = mid; found_jd = mid
Narrow(lo, hi, fnd, mid, match) ==
    IF match THEN [low |-> mid, high |-> hi, found |-> fnd]
             ELSE [low |-> lo, high |-> mid, found |-> mid]

\* scan_jd = found_jd; scan_jd += 0.0001
Resume(fnd) == fnd + Epsilon

Event(jd, sign, retro, speed) ==
    [jd |-> jd, sign |-> sign, retro |-> retro, speed |-> speed]

----------------------------------------------------------------------------
(* Inputs *)

LonSet   == {10, 40}
SpeedSet == {10, -5}
Samples  == LonSet \X SpeedSet

Deltas   == {30, 100, 20000, 250001}
Windows  == { <<0, 0>>, <<100, 0>>, <<0, 100>>, <<0, 1000>>, <<100, 100000>>,
              <<0, 600000>> }
Month    == 300000

Seg(t, lon, speed) == [t |-> t, lon |-> lon, num |-> 0, den |-> 1, speed |-> speed]

\* Oracles whose samples are constant between at most n change instants.
RECURSIVE Stepwise(_)
Stepwise(n) ==
    IF n = 0
    THEN { << Seg(0, s[1], s[2]) >> : s \in Samples }
    ELSE LET P == Stepwise(n - 1)
             L == { o \in P : Len(o) = n }
         IN  P \cup UNION { { Append(o, Seg(o[n].t + x[1], x[2][1], x[2][2]))
                              : x \in Deltas \X (Samples \ {<<o[n].lon, o[n].speed>>}) }
                            : o \in L }

\* Oracles that run through a cycle of samples, one change every p microdays,
\* n changes in all: the sign alone, the direction alone, both at
\* once, or the two axes in turn.
Cycles  == { << <<10, 10>>, <<40, 10>> >>,
             << <<10, 10>>, <<10, -5>> >>,
             << <<10, 10>>, <<40, -5>> >>,
             << <<10, 10>>, <<40, 10>>, <<40, -5>>, <<10, -5>> >> }
Periods == {30, 100, 150, 20000, 50000}

Cyclic(c, p, n) ==
    [ i \in 1..(n + 1) |->
        LET s == c[((i - 1) % Len(c)) + 1] IN Seg((i - 1) * p, s[1], s[2]) ]

\* Longitude rising linearly from 0 to 360 degrees over 12 months, direct.
Linear == << [t |-> 0, lon |-> 0, num |-> 30, den |-> Month, speed |-> 10] >>

Idle ==
    /\ events = << >>
    /\ step_days = 0 /\ scan_jd = 0
    /\ prev_jd = 0 /\ prev_sign = 0 /\ prev_retro = FALSE
    /\ curr_lon = 0 /\ curr_speed = 0 /\ curr_retro = FALSE /\ curr_sign = 0
    /\ sign_changed = FALSE /\ motion_changed = FALSE
    /\ low = 0 /\ high = 0 /\ found_jd = 0 /\ iter = 0
    /\ calls = 0
    /\ out_sign = 0 /\ out_retro = FALSE

Window(w) == start_jd = w[1] /\ end_jd = w[2]

CallPending ==
    /\ planet_id \in Planets
    /\ pc = "init"
    /\ in_lon = 0 /\ in_speed = 0
    /\ Idle

InitCyclic ==
    \/ /\ \E c \in Cycles, p \in Periods, n \in {MaxFlips - 1, MaxFlips} :
            oracle = Cyclic(c, p, n)
       /\ \E w \in Windows : Window(w)
    \/ /\ oracle = Linear
       /\ Window(<<0, 12 * Month>>)

Init ==
    /\ \/ /\ oracle \in Stepwise(MaxChanges)
          /\ \E w \in Windows : Window(w)
       \/ InitCyclic
    /\ CallPending

\* The calls on which termination is checked.
InitFair == InitCyclic /\ CallPending


----------------------------------------------------------------------------
(* find_events, one action per step of its control flow *)

\* Lines 107-130: the initial sample and the start event.
Start ==
    /\ pc = "init"
    /\ LET d == get_planet_data(oracle, start_jd, planet_id)
           s == get_sign(d.lon)
       IN  /\ curr_lon' = d.lon /\ curr_speed' = d.speed /\ curr_retro' = d.retro
           /\ curr_sign' = s
           /\ events' = << Event(start_jd, s, d.retro, d.speed) >>
    /\ calls' = calls + 1
    /\ step_days' = StepFor(planet_id)
    /\ scan_jd' = start_jd
    /\ pc' = "loop"
    /\ UNCHANGED << planet_id, start_jd, end_jd, oracle, prev_jd, prev_sign,
                    prev_retro, sign_changed, motion_changed, low, high,
                    found_jd, iter, in_lon, in_speed, out_sign, out_retro >>

\* Lines 132-155: one scan step; a detected change opens a bracket.
ScanStep ==
    /\ pc = "loop"
    /\ LoopCond(scan_jd, end_jd)
    /\ LET nxt == Advance(scan_jd, step_days, end_jd)
           d   == get_planet_data(oracle, nxt, planet_id)
           s   == get_sign(d.lon)
           sc  == s # curr_sign
           mc  == d.retro # curr_retro
       IN  /\ prev_jd' = scan_jd
           /\ prev_retro' = curr_retro
           /\ prev_sign' = curr_sign
           /\ scan_jd' = nxt
           /\ curr_lon' = d.lon /\ curr_speed' = d.speed /\ curr_retro' = d.retro
           /\ curr_sign' = s
           /\ sign_changed' = sc
           /\ motion_changed' = mc
           /\ IF Detect(sc, mc)
              THEN /\ low' = scan_jd /\ high' = nxt /\ found_jd' = nxt
                   /\ iter' = 0
                   /\ pc' = "bisect"
              ELSE /\ UNCHANGED << low, high, found_jd, iter >>
                   /\ pc' = "loop"
    /\ calls' = calls + 1
    /\ UNCHANGED << planet_id, start_jd, end_jd, oracle, events, step_days,
                    in_lon, in_speed, out_sign, out_retro >>

\* Lines 158-179: one iteration of the precision loop.
Bisect ==
    /\ pc = "bisect"
    /\ iter < Iterations
    /\ LET mid == Mid(low, high)
           m   == get_planet_data(oracle, mid, planet_id)
           ms  == get_sign(m.lon)
           mp  == MatchPrev(ms, m.retro, prev_sign, prev_retro,
                            sign_changed, motion_changed)
           n   == Narrow(low, high, found_jd, mid, mp)
       IN  /\ low' = n.low /\ high' = n.high /\ found_jd' = n.found
    /\ iter' = iter + 1
    /\ calls' = calls + 1
    /\ UNCHANGED << planet_id, start_jd, end_jd, oracle, pc, events, step_days,
                    scan_jd, prev_jd, prev_sign, prev_retro, curr_lon,
                    curr_speed, curr_retro, curr_sign, sign_changed,
                    motion_changed, in_lon, in_speed, out_sign, out_retro >>

\* Lines 181-200: register the event and resume after it.
Register ==
    /\ pc = "bisect"
    /\ iter = Iterations
    /\ LET f == get_planet_data(oracle, found_jd, planet_id)
           s == get_sign(f.lon)
       IN  /\ events' = Append(events, Event(found_jd, s, f.retro, f.speed))
           /\ curr_lon' = f.lon /\ curr_speed' = f.speed /\ curr_retro' = f.retro
           /\ curr_sign' = s
    /\ scan_jd' = Resume(found_jd)
    /\ calls' = calls + 1
    /\ pc' = "loop"
    /\ UNCHANGED << planet_id, start_jd, end_jd, oracle, step_days, prev_jd,
                    prev_sign, prev_retro, sign_changed, motion_changed, low,
                    high, found_jd, iter, in_lon, in_speed, out_sign, out_retro >>

\* Lines 202-207: leave the loop and return events.
Return ==
    /\ pc = "loop"
    /\ ~LoopCond(scan_jd, end_jd)
    /\ pc' = "done"
    /\ UNCHANGED << planet_id, start_jd, end_jd, oracle, events, step_days,
                    scan_jd, prev_jd, prev_sign, prev_retro, curr_lon,
                    curr_speed, curr_retro, curr_sign, sign_changed,
                    motion_changed, low, high, found_jd, iter, calls,
                    in_lon, in_speed, out_sign, out_retro >>

Next == Start \/ ScanStep \/ Bisect \/ Register \/ Return

Spec == Init /\ [][Next]_vars

\* find_events is a sequential loop: it keeps running until it returns.
FairSpec == InitFair /\ [][Next]_vars /\ WF_vars(Next)

----------------------------------------------------------------------------
(* The classifier on its own: the unpacking of get_planet_data followed by   *)
(* get_sign, applied to an arbitrary raw sample (in_lon, in_speed).          *)

ClassifierSpeeds == {-5, 0, 1, 10}

InitClassify ==
    /\ planet_id \in Planets
    /\ in_lon \in (-LonLimit)..(2 * LonLimit)
    /\ in_speed \in ClassifierSpeeds
    /\ oracle = << Seg(0, 0, in_speed) >>
    /\ start_jd = 0 /\ end_jd = 0
    /\ pc = "classify"
    /\ Idle

Classify ==
    /\ pc = "classify"
    /\ LET d == Unpack([lon |-> in_lon, speed |-> in_speed], planet_id)
       IN  /\ out_sign' = get_sign(d.lon)
           /\ out_retro' = d.retro
    /\ calls' = calls + 1
    /\ pc' = "classified"
    /\ UNCHANGED << planet_id, start_jd, end_jd, oracle, events, step_days,
                    scan_jd, prev_jd, prev_sign, prev_retro, curr_lon,
                    curr_speed, curr_retro, curr_sign, sign_changed,
                    motion_changed, low, high, found_jd, iter, in_lon, in_speed >>

SpecClassify == InitClassify /\ [][Classify]_vars

----------------------------------------------------------------------------
(* Vocabulary of the properties *)

\* The DiscreteState the classifier gives the oracle's sample at jd.
StateOf(jd) ==
    LET d == get_planet_data(oracle, jd, planet_id)
    IN  << get_sign(d.lon), d.retro >>

EventState(e) == << e.sign, e.retro >>

PrevState == << prev_sign, prev_retro >>

\* The event the oracle's sample at jd gives.
EventAt(jd) ==
    LET d == get_planet_data(oracle, jd, planet_id)
    IN  Event(jd, get_sign(d.lon), d.retro, d.speed)

\* The instants at which the oracle's DiscreteState changes.  A stepwise
\* oracle changes at the start of each later segment (consecutive samples
\* differ in sign or in direction); the linear one, whose longitude is
\* ((30 * t) \div den) % 360, enters a new sign at each multiple of den.
ChangeInstants ==
    IF oracle[1].num = 0
    THEN { oracle[i].t : i \in 2..Len(oracle) }
    ELSE { k * oracle[1].den : k \in 1..12 }

RECURSIVE Ascending(_)
Ascending(S) ==
    IF S = {} THEN << >>
    ELSE LET m == CHOOSE x \in S : \A y \in S : x <= y
         IN  << m >> \o Ascending(S \ {m})

\* The state changes inside the bracket being refined, (prev_jd, scan_jd].
BracketChanges == { t \in ChangeInstants : prev_jd < t /\ t <= scan_jd }

\* All iterations of the precision loop are done; Register comes next and
\* appends the event at found_jd with the state sampled there.
Refined == pc = "bisect" /\ iter = Iterations

\* The state changes at most once within any span of one scan step.
Sparse == \A t, u \in ChangeInstants : t < u => u - t > step_days

Running == pc \in {"loop", "bisect", "done"}

----------------------------------------------------------------------------
(* C1: no two consecutive events of the list carry the same DiscreteState, *)
(* at every point of the construction and on return.                       *)
NoDuplicateAdjacentState ==
    \A i \in 1..(Len(events) - 1) :
        EventState(events[i]) # EventState(events[i + 1])

\* A returned list of three events whose first and third state coincide.
NoDuplicateWitness ==
    /\ pc = "done" /\ start_jd < end_jd
    /\ Len(events) = 3
    /\ EventState(events[1]) = EventState(events[3])

(* C2: for start < end the first event is at start_jd, event times are     *)
(* strictly increasing and none exceeds end_jd.                            *)
EventsPartitionWindow ==
    (Running /\ start_jd < end_jd) =>
        /\ events[1].jd = start_jd
        /\ \A i \in 1..(Len(events) - 1) : events[i].jd < events[i + 1].jd
        /\ \A i \in 1..Len(events) : events[i].jd <= end_jd

\* A returned list whose last event lies exactly on the window end.
EventsPartitionWitness ==
    /\ pc = "done" /\ start_jd < end_jd
    /\ Len(events) >= 2
    /\ events[Len(events)].jd = end_jd

(* C3 as stated: with start >= end the call is rejected as InvalidWindow   *)
(* before any oracle call, and no event list is produced.                  *)
InvalidWindowRejected ==
    (start_jd >= end_jd /\ pc # "init") =>
        /\ pc = "InvalidWindow"
        /\ calls = 0
        /\ events = << >>

(* C3 as the code has it: with start >= end find_events makes exactly one  *)
(* oracle call, at start_jd, never enters the scan loop and returns the    *)
(* one-event list holding the state at start_jd.                           *)
InvalidWindowReturnsStartEvent ==
    (start_jd >= end_jd /\ Running) =>
        /\ pc # "bisect"
        /\ calls = 1
        /\ events = << EventAt(start_jd) >>

InvalidWindowWitness ==
    /\ pc = "done"
    /\ start_jd > end_jd
    /\ Len(events) = 1

\* C4's case: the scan found both axes changed, the bracket starts in the
\* prev state and holds exactly two state changes, the first of which moves
\* one axis only (so the second moves the other).
TwoAxisBracket ==
    /\ pc = "bisect"
    /\ sign_changed /\ motion_changed
    /\ StateOf(prev_jd) = PrevState
    /\ Cardinality(BracketChanges) = 2
    /\ LET t1 == CHOOSE t \in BracketChanges : \A u \in BracketChanges : t <= u
       IN  (StateOf(t1)[1] = prev_sign) # (StateOf(t1)[2] = prev_retro)

FirstChange == CHOOSE t \in BracketChanges : \A u \in BracketChanges : t <= u
LastChange  == CHOOSE t \in BracketChanges : \A u \in BracketChanges : u <= t

(* C4 as stated: the refined instant is the later of the two               *)
(* sub-transitions and the event carries the state with both axes changed. *)
TwoAxisResolvesToLater ==
    (TwoAxisBracket /\ Refined) =>
        /\ found_jd >= LastChange
        /\ StateOf(found_jd)[1] # prev_sign
        /\ StateOf(found_jd)[2] # prev_retro

(* C4 as the code has it: a midpoint is pre-change only if it matches prev *)
(* on every changed axis, so the refined instant is the earlier of the two *)
(* sub-transitions (within the bisection precision) and the event carries  *)
(* the state sampled there, in which only the first axis has changed.      *)
TwoAxisResolvesToEarlier ==
    (TwoAxisBracket /\ Refined) =>
        /\ found_jd >= FirstChange
        /\ found_jd - FirstChange <= (scan_jd - prev_jd) \div (2^20)
        /\ found_jd < LastChange
        /\ StateOf(found_jd) = StateOf(FirstChange)
        /\ (StateOf(found_jd)[1] = prev_sign) # (StateOf(found_jd)[2] = prev_retro)

\* A refined two-axis bracket whose sign changes first, then the direction.
TwoAxisWitness ==
    /\ TwoAxisBracket /\ Refined
    /\ StateOf(FirstChange)[1] # prev_sign
    /\ LastChange - FirstChange > Epsilon

\* The longitude get_sign is given: the raw one, or Rahu's plus 180 for Ketu.
BodyLon == IF planet_id = "KETU" THEN in_lon + 180 ELSE in_lon

ExpectedEvents ==
    LET pts == Ascending({ t \in ChangeInstants : start_jd < t /\ t <= end_jd })
    IN  << EventAt(start_jd) >> \o [ k \in 1..Len(pts) |-> EventAt(pts[k]) ]

(* C6: when the state changes at most once within any span of one scan     *)
(* step, the returned list is the start event followed by exactly one      *)
(* event per state change in (start, end], in order, each with the state   *)
(* that holds after its change.                                            *)
OneEventPerChange ==
    (pc = "done" /\ start_jd < end_jd /\ Sparse) => events = ExpectedEvents

\* The linear oracle: the start event and 12 evenly spaced sign entries.
OneEventPerChangeWitness ==
    /\ pc = "done"
    /\ oracle[1].num # 0
    /\ Len(events) = 13
    /\ \A k \in 1..13 : events[k].jd = (k - 1) * oracle[1].den /\ ~events[k].retro

\* C7's case: the bracket starts in the prev state and holds one change.
SingleChangeBracket ==
    /\ pc = "bisect"
    /\ StateOf(prev_jd) = PrevState
    /\ Cardinality(BracketChanges) = 1

(* C7: for a bracket with exactly one state change t*, the instant left    *)
(* after the 20 iterations is the final high, is at or after t*, has the   *)
(* post-change state and is within (high0 - low0) / 2^20 of t*.            *)
RefinerConverges ==
    (SingleChangeBracket /\ Refined) =>
        /\ found_jd = high
        /\ found_jd >= FirstChange
        /\ StateOf(found_jd) = StateOf(FirstChange)
        /\ StateOf(found_jd) # PrevState
        /\ found_jd - FirstChange <= (scan_jd - prev_jd) \div (2^20)

\* A refined single-change bracket that was opened after a resume.
RefinerWitness ==
    /\ SingleChangeBracket /\ Refined
    /\ Len(events) >= 2
    /\ prev_jd = events[Len(events)].jd + Epsilon

\* The midpoint test of the bisection applied to the oracle's state at jd.
MatchesPrevAt(jd) ==
    MatchPrev(StateOf(jd)[1], StateOf(jd)[2], prev_sign, prev_retro,
              sign_changed, motion_changed)

(* C8: in every bisection iteration of every bracket, also one opened      *)
(* after a resume, the state at low matches prev on every tracked axis and *)
(* the state at high differs from prev on a tracked axis.                  *)
BisectionInvariant ==
    pc = "bisect" => (MatchesPrevAt(low) /\ ~MatchesPrevAt(high))

(* C9: on return with start < end the last event's state is the oracle's   *)
(* state at end_jd, also when the resume cursor landed at or past end_jd.  *)
LastEventHoldsAtEnd ==
    (pc = "done" /\ start_jd < end_jd) =>
        EventState(events[Len(events)]) = StateOf(end_jd)

(* C10: the scan cursor is strictly greater at the end of every iteration  *)
(* of the while loop than at its start, and find_events returns.           *)
ScanTerminates ==
    /\ [][(pc' = "loop" /\ pc \in {"loop", "bisect"}) => scan_jd' > prev_jd']_vars
    /\ <>(pc = "done")

\* A return where the resume cursor has passed the window end.
ScanTerminatesWitness ==
    /\ pc = "done"
    /\ Len(events) >= 2
    /\ scan_jd > end_jd

====
